---------------------------- MODULE Spec2Model ----------------------------
(***************************************************************************)
(* State-machine model of ColorizeVideo:                                   *)
(*   - colorize_filter.py: match_histograms, post_process_video,           *)
(*     colorize_video, batch_colorize                                      *)
(*   - colorize.py: colorize_video, batch_colorize (the older script,      *)
(*     without post-processing, tqdm override or skip checks)              *)
(*                                                                         *)
(* Spec      : one call of post_process_video on one video.                *)
(* SpecBatch : one call of batch_colorize on a list of files.              *)
(*                                                                         *)
(* A frame is a uniform colour field, so it is represented by the BGR      *)
(* triple <<b, g, r>> of its pixels (8-bit samples).  Real-valued          *)
(* parameters are scaled integers: saturation_scale, blend_factor and      *)
(* clahe_clip_limit in tenths, the frame rate in thousandths of a frame    *)
(* per second.                                                             *)
(***************************************************************************)
EXTENDS Integers, Sequences, FiniteSets, TLC

\* ------------------------------------------------------------------ bounds
MaxFrames == 3      \* longest input video, in frames
MaxFiles  == 3      \* longest batch, in files

\* ------------------------------------------------------- program constants
CLAHE_TILE_GRID == 8                \* CLAHE_TILE_GRID_SIZE = (8, 8)
DEFAULT_SATURATION_SCALE == 8       \* 0.8, in tenths
DEFAULT_CLAHE_CLIP_LIMIT == 5       \* 0.5, in tenths
DEFAULT_BLEND_FACTOR == 6           \* 0.6, in tenths

\* ---------------------------------------------------------------- helpers
Max2(a, b) == IF a >= b THEN a ELSE b
Min2(a, b) == IF a <= b THEN a ELSE b
Max3(a, b, c) == Max2(a, Max2(b, c))
Min3(a, b, c) == Min2(a, Min2(b, c))
\* saturate_cast<uchar>
Sat8(x) == IF x < 0 THEN 0 ELSE IF x > 255 THEN 255 ELSE x
\* rounded quotient n / d for n >= 0, d > 0
RoundDiv(n, d) == (2 * n + d) \div (2 * d)

\* int(x) of a non-negative float kept in thousandths: the fraction is cut
IntTrunc(x) == (x \div 1000) * 1000

\* ----------------------------------------------------- colour conversions
\* cv2.COLOR_BGR2LAB on 8-bit samples: channel 1 lightness, channels 2 and 3
\* the two opponent chroma axes offset by 128 (integer opponent transform).
BGR2LAB(p) ==
    LET b == p[1]  g == p[2]  r == p[3]
    IN  << (299 * r + 587 * g + 114 * b) \div 1000,
           128 + ((r - g) \div 2),
           128 + ((((r + g) \div 2) - b) \div 2) >>

\* cv2.COLOR_LAB2BGR: the inverse transform, saturated to 8 bits.
LAB2BGR(lab) ==
    LET l == lab[1]  pa == lab[2] - 128  qb == lab[3] - 128
        g == l - ((712 * pa - 228 * qb) \div 1000)
    IN  << Sat8(g + pa - 2 * qb), Sat8(g), Sat8(g + 2 * pa) >>

\* cv2.COLOR_BGR2HSV on 8-bit samples: H in 0..179, S and V in 0..255.
BGR2HSV(p) ==
    LET b == p[1]  g == p[2]  r == p[3]
        v == Max3(b, g, r)
        d == v - Min3(b, g, r)
        s == IF v = 0 THEN 0 ELSE RoundDiv(255 * d, v)
        hdeg == IF d = 0 THEN 0
                ELSE IF v = r THEN (60 * (g - b)) \div d
                ELSE IF v = g THEN 120 + ((60 * (b - r)) \div d)
                ELSE 240 + ((60 * (r - g)) \div d)
        h == (IF hdeg < 0 THEN hdeg + 360 ELSE hdeg) \div 2
    IN  << IF h > 179 THEN 179 ELSE h, s, v >>

\* cv2.COLOR_HSV2BGR on 8-bit samples (sector formula).
HSV2BGR(hsv) ==
    LET hd == 2 * hsv[1]  s == hsv[2]  v == hsv[3]
        sector == (hd \div 60) % 6
        f == hd % 60
        pp == RoundDiv(v * (255 - s), 255)
        qq == RoundDiv(v * (255 * 60 - s * f), 255 * 60)
        tt == RoundDiv(v * (255 * 60 - s * (60 - f)), 255 * 60)
        rgb == CASE sector = 0 -> << v, tt, pp >>
                 [] sector = 1 -> << qq, v, pp >>
                 [] sector = 2 -> << pp, v, tt >>
                 [] sector = 3 -> << pp, qq, v >>
                 [] sector = 4 -> << tt, pp, v >>
                 [] OTHER      -> << v, pp, qq >>
    IN  << rgb[3], rgb[2], rgb[1] >>

\* The saturation of a BGR frame.
Saturation(p) == BGR2HSV(p)[2]

\* cv2.createCLAHE(clipLimit, tileGridSize).apply on one channel of a uniform
\* field of value v whose tiles hold `area` samples: the tile histogram has
\* one bin of `area` samples, clipped at the integer clip limit, the excess
\* spread over the 256 bins, and v mapped through the scaled cumulative sum.
CLAHE(v, clip10, area) ==
    LET limit    == Max2((clip10 * area) \div (10 * 256), 1)
        kept     == Min2(area, limit)
        clipped  == area - kept
        batch    == clipped \div 256
        residual == clipped % 256
        step     == IF residual = 0 THEN 1 ELSE Max2(256 \div residual, 1)
        extra    == IF residual = 0 THEN 0 ELSE Min2(residual, (v \div step) + 1)
        sum      == (v + 1) * batch + kept + extra
    IN  Sat8(RoundDiv(sum * 255, area))


\* ------------------------------------------------------------------ frames
\* A decoded frame: its size and the BGR value of its (uniform) pixels.
Frame(w, h, px) == [w |-> w, h |-> h, px |-> px]
\* The value of a frame variable that holds no frame (Python's None).
NoFrame == [w |-> 0, h |-> 0, px |-> << 0, 0, 0 >>]
\* Samples per CLAHE tile of a frame.
TileArea(f) == (f.w \div CLAHE_TILE_GRID) * (f.h \div CLAHE_TILE_GRID)

\* ------------------------------------------------------- match_histograms
\* line 70: hsv[:, :, 1] = np.clip(hsv[:, :, 1] * saturation_scale, 0, 255),
\* the float product cut to uint8 on assignment.
ScaleSaturation(hsv, saturation_scale) ==
    << hsv[1], Sat8((hsv[2] * saturation_scale) \div 10), hsv[3] >>

\* Variant: the saturation channel is left as it is.
match_histograms_NoScale(source, template, saturation_scale, clahe_clip_limit) ==
    LET source_lab == BGR2LAB(source.px)
        matched_lab == [i \in 1..3 |->
                          CLAHE(source_lab[i], clahe_clip_limit, TileArea(source))]
    IN  Frame(source.w, source.h, HSV2BGR(BGR2HSV(LAB2BGR(matched_lab))))

\* Variant: the equalised channels are taken from the template frame.
match_histograms_UsesTemplate(source, template, saturation_scale, clahe_clip_limit) ==
    LET template_lab == BGR2LAB(template.px)
        matched_lab == [i \in 1..3 |->
                          CLAHE(template_lab[i], clahe_clip_limit, TileArea(source))]
        hsv == ScaleSaturation(BGR2HSV(LAB2BGR(matched_lab)), saturation_scale)
    IN  Frame(source.w, source.h, HSV2BGR(hsv))

match_histograms(source, template, saturation_scale, clahe_clip_limit) ==
    LET source_lab == BGR2LAB(source.px)
        template_lab == BGR2LAB(template.px)     \* computed, never read
        matched_lab == [i \in 1..3 |->
                          CLAHE(source_lab[i], clahe_clip_limit, TileArea(source))]
        matched_bgr == LAB2BGR(matched_lab)
        hsv == ScaleSaturation(BGR2HSV(matched_bgr), saturation_scale)
    IN  Frame(source.w, source.h, HSV2BGR(hsv))

\* cv2.addWeighted(src1, 1 - blend_factor, src2, blend_factor, 0)
addWeighted(src1, src2, blend_factor) ==
    Frame(src1.w, src1.h,
          [i \in 1..3 |->
             Sat8(RoundDiv(src1.px[i] * (10 - blend_factor)
                           + src2.px[i] * blend_factor, 10))])

\* The frame post_process_video writes for input frame f (lines 90-91).
Processed(f, ref, saturation_scale, clahe_clip_limit, blend_factor) ==
    addWeighted(f, match_histograms(f, ref, saturation_scale, clahe_clip_limit),
                blend_factor)

\* ------------------------------------------------------------------ inputs
\* a grey, a red and a blue frame
PixelValues == { << 128, 128, 128 >>, << 40, 60, 220 >>, << 200, 120, 30 >> }
FrameSizes == { << 64, 64 >>, << 128, 64 >> }
\* 30, 29.97 and 23.976 frames per second
FrameRates == { 30000, 29970, 23976 }
SaturationScales == { 0, DEFAULT_SATURATION_SCALE, 10 }
ClipLimits == { DEFAULT_CLAHE_CLIP_LIMIT, 40 }
BlendFactors == { 0, DEFAULT_BLEND_FACTOR, 10 }

SeqsUpTo(S, n) == UNION { [1..k -> S] : k \in 0..n }

\* =================================================================== state
VARIABLES
    \* ---- post_process_video (colorize_filter.py lines 73-96)
    video,              \* the input file: opened, frames, fps, width, height
    saturation_scale,   \* argument, tenths
    clahe_clip_limit,   \* argument, tenths
    blend_factor,       \* argument, tenths
    pc,                 \* position in post_process_video
    cap,                \* cv2.VideoCapture: frames read so far, released
    prev_frame,         \* local prev_frame
    frame,              \* local frame
    matched_frame,      \* local matched_frame
    blended_frame,      \* local blended_frame
    out,                \* cv2.VideoWriter: created, fps, size, frames, released
    exc,                \* the exception that left post_process_video, or "none"
    \* ---- batch_colorize / colorize_video (both scripts)
    script,             \* which script runs
    files,              \* files_to_process
    idx,                \* index of the file the for loop is at
    bpc,                \* position in batch_colorize
    cpc,                \* position in colorize_video
    cwd,                \* the process working directory
    torch_load,         \* torch.load: number of patched_load wrappers around the original
    tqdm_tqdm,          \* the attribute tqdm.tqdm
    original_load,      \* local original_load
    original_cwd,       \* local original_cwd
    cexc,               \* exception pending in colorize_video, or "none"
    exists,             \* output files present in output_dir
    log,                \* what batch_colorize did with each file, in order
    entry               \* cwd, torch.load and tqdm.tqdm when colorize_video was called

ppVars == << video, saturation_scale, clahe_clip_limit, blend_factor, pc, cap,
             prev_frame, frame, matched_frame, blended_frame, out, exc >>
bVars == << script, files, idx, bpc, cpc, cwd, torch_load, tqdm_tqdm,
            original_load, original_cwd, cexc, exists, log, entry >>
vars == << ppVars, bVars >>

\* ------------------------------------------------------ cv2.VideoCapture
\* cap.read(): (ret, frame); ret is False when the file did not open or the
\* stream is exhausted, and the frame is then None.
CapRet == video.opened /\ cap.pos < Len(video.frames)
CapFrame == IF CapRet THEN video.frames[cap.pos + 1] ELSE NoFrame

NoWriter == [created |-> FALSE, fps |-> 0, width |-> 0, height |-> 0,
             frames |-> << >>, released |-> FALSE]

\* The batch variables while only post_process_video is running.
BatchIdle ==
    /\ script = "colorize_filter.py"
    /\ files = << >>
    /\ idx = 0
    /\ bpc = "idle"
    /\ cpc = "idle"
    /\ cwd = "start"
    /\ torch_load = 0
    /\ tqdm_tqdm = "unset"
    /\ original_load = 0
    /\ original_cwd = "start"
    /\ cexc = "none"
    /\ exists = {}
    /\ log = << >>
    /\ entry = [cwd |-> "start", torch_load |-> 0, tqdm_tqdm |-> "unset"]

\* post_process_video is called on some input file with some configuration.
Init ==
    /\ \E sz \in FrameSizes, px \in SeqsUpTo(PixelValues, MaxFrames),
          fps \in FrameRates, op \in BOOLEAN :
          video = [opened |-> op,
                   frames |-> [i \in 1..Len(px) |-> Frame(sz[1], sz[2], px[i])],
                   fps |-> fps, width |-> sz[1], height |-> sz[2]]
    /\ saturation_scale \in SaturationScales
    /\ clahe_clip_limit \in ClipLimits
    /\ blend_factor \in BlendFactors
    /\ pc = "open"
    /\ cap = [pos |-> 0, released |-> FALSE]
    /\ prev_frame = NoFrame
    /\ frame = NoFrame
    /\ matched_frame = NoFrame
    /\ blended_frame = NoFrame
    /\ out = NoWriter
    /\ exc = "none"
    /\ BatchIdle

\* ------------------------------------------------- post_process_video steps
\* Variant: the result of the first read is not checked.
PPOpen_NoCheck ==
    /\ pc = "open"
    /\ prev_frame' = CapFrame
    /\ cap' = [cap EXCEPT !.pos = IF CapRet THEN @ + 1 ELSE @]
    /\ pc' = "setup"
    /\ UNCHANGED << video, saturation_scale, clahe_clip_limit, blend_factor,
                    frame, matched_frame, blended_frame, out, exc, bVars >>

\* lines 74-77: open the capture, read frame 0, raise when there is none.
PPOpen ==
    /\ pc = "open"
    /\ prev_frame' = CapFrame
    /\ cap' = [cap EXCEPT !.pos = IF CapRet THEN @ + 1 ELSE @]
    /\ IF ~CapRet
         THEN pc' = "raised" /\ exc' = "RuntimeError"
         ELSE pc' = "setup" /\ exc' = exc
    /\ UNCHANGED << video, saturation_scale, clahe_clip_limit, blend_factor,
                    frame, matched_frame, blended_frame, out, bVars >>

\* Variant: frame 0 is written before the loop.
PPSetup_WritesFirst ==
    /\ pc = "setup"
    /\ out' = [created |-> TRUE, fps |-> IntTrunc(video.fps),
               width |-> video.width, height |-> video.height,
               frames |-> << prev_frame >>, released |-> FALSE]
    /\ pc' = "read"
    /\ UNCHANGED << video, saturation_scale, clahe_clip_limit, blend_factor, cap,
                    prev_frame, frame, matched_frame, blended_frame, exc, bVars >>

\* lines 79-84: fps, width, height = int(cap.get(...)); out = cv2.VideoWriter(...)
PPSetup ==
    /\ pc = "setup"
    /\ out' = [created |-> TRUE, fps |-> IntTrunc(video.fps),
               width |-> video.width, height |-> video.height,
               frames |-> << >>, released |-> FALSE]
    /\ pc' = "read"
    /\ UNCHANGED << video, saturation_scale, clahe_clip_limit, blend_factor, cap,
                    prev_frame, frame, matched_frame, blended_frame, exc, bVars >>

\* lines 87-89: ret, frame = cap.read(); leave the loop when not ret.
PPRead ==
    /\ pc = "read"
    /\ frame' = CapFrame
    /\ cap' = [cap EXCEPT !.pos = IF CapRet THEN @ + 1 ELSE @]
    /\ pc' = IF CapRet THEN "match" ELSE "release"
    /\ UNCHANGED << video, saturation_scale, clahe_clip_limit, blend_factor,
                    prev_frame, matched_frame, blended_frame, out, exc, bVars >>

\* line 90: matched_frame = match_histograms(frame, prev_frame, ...)
PPMatch ==
    /\ pc = "match"
    /\ matched_frame' = match_histograms(frame, prev_frame, saturation_scale,
                                         clahe_clip_limit)
    /\ pc' = "blend"
    /\ UNCHANGED << video, saturation_scale, clahe_clip_limit, blend_factor, cap,
                    prev_frame, frame, blended_frame, out, exc, bVars >>

\* line 91: blended_frame = cv2.addWeighted(frame, 1 - blend_factor, matched_frame, blend_factor, 0)
PPBlend ==
    /\ pc = "blend"
    /\ blended_frame' = addWeighted(frame, matched_frame, blend_factor)
    /\ pc' = "write"
    /\ UNCHANGED << video, saturation_scale, clahe_clip_limit, blend_factor, cap,
                    prev_frame, frame, matched_frame, out, exc, bVars >>

\* line 92: out.write(blended_frame)
PPWrite ==
    /\ pc = "write"
    /\ out' = [out EXCEPT !.frames = Append(@, blended_frame)]
    /\ pc' = "advance"
    /\ UNCHANGED << video, saturation_scale, clahe_clip_limit, blend_factor, cap,
                    prev_frame, frame, matched_frame, blended_frame, exc, bVars >>

\* Variant: the lookback takes the frame that was written.
PPAdvance_Blended ==
    /\ pc = "advance"
    /\ prev_frame' = blended_frame
    /\ pc' = "read"
    /\ UNCHANGED << video, saturation_scale, clahe_clip_limit, blend_factor, cap,
                    frame, matched_frame, blended_frame, out, exc, bVars >>

\* line 93: prev_frame = frame
PPAdvance ==
    /\ pc = "advance"
    /\ prev_frame' = frame
    /\ pc' = "read"
    /\ UNCHANGED << video, saturation_scale, clahe_clip_limit, blend_factor, cap,
                    frame, matched_frame, blended_frame, out, exc, bVars >>

\* lines 90-92: a cv2 call raises (cv2.error); nothing between it and the
\* caller catches it, and lines 95-96 are not reached.
PPLibraryRaise ==
    /\ pc \in { "match", "blend", "write" }
    /\ exc' = "cv2.error"
    /\ pc' = "raised"
    /\ UNCHANGED << video, saturation_scale, clahe_clip_limit, blend_factor, cap,
                    prev_frame, frame, matched_frame, blended_frame, out, bVars >>

\* lines 95-96: cap.release(); out.release(); return
PPRelease ==
    /\ pc = "release"
    /\ cap' = [cap EXCEPT !.released = TRUE]
    /\ out' = [out EXCEPT !.released = TRUE]
    /\ pc' = "returned"
    /\ UNCHANGED << video, saturation_scale, clahe_clip_limit, blend_factor,
                    prev_frame, frame, matched_frame, blended_frame, exc, bVars >>

Next ==
    \/ PPOpen
    \/ PPSetup
    \/ PPRead
    \/ PPMatch
    \/ PPBlend
    \/ PPWrite
    \/ PPAdvance
    \/ PPLibraryRaise
    \/ PPRelease

Spec == Init /\ [][Next]_vars

\* ============================================ properties of post_process_video
\* Candidate reference frames of the video's size.
RefFrames == { Frame(video.width, video.height, p) : p \in PixelValues }
InLoopBody == pc \in { "blend", "write", "advance" }

\* C1: a run that returns has written exactly N-1 frames for N >= 1 input
\* frames, and at every moment the i-th frame written is the blend computed
\* from input frame i+1 (0-based: output i from input i+1): input order, no
\* frame twice, none dropped but frame 0.
C1_OutputFrames ==
    /\ \A i \in 1..Len(out.frames) :
          /\ i + 1 <= Len(video.frames)
          /\ out.frames[i] =
                addWeighted(video.frames[i + 1],
                            match_histograms(video.frames[i + 1], video.frames[i],
                                             saturation_scale, clahe_clip_limit),
                            blend_factor)
    /\ pc = "returned" => Len(out.frames) = Len(video.frames) - 1

C1_Witness ==
    /\ pc = "returned"
    /\ Len(video.frames) = 3
    /\ Len(out.frames) = 2
    /\ video.frames[2] # video.frames[3]
    /\ out.frames[1] # out.frames[2]

\* C2 (as claimed): whenever control has left post_process_video, by return or
\* by an exception, the capture is released, and so is the writer if it was
\* created.
C2_ReleasedOnEveryExit ==
    pc \in { "returned", "raised" } =>
        /\ cap.released
        /\ out.created => out.released

C4_OutputFormatEqualsInput ==
    out.created =>
        /\ out.fps = video.fps
        /\ out.width = video.width
        /\ out.height = video.height

\* C5 (as claimed): with saturation_scale = 0 every frame written has
\* saturation 0, whatever the blend factor and the input frame.
C5_WrittenDesaturated ==
    saturation_scale = 0 =>
        \A i \in 1..Len(out.frames) : Saturation(out.frames[i].px) = 0

\* C5 (amended): with saturation_scale = 0 the frame match_histograms returns
\* has saturation 0, and a frame written has saturation 0 when blend_factor
\* is 1.0 or the input frame it comes from is itself grey.
C5_MatchedDesaturated ==
    saturation_scale = 0 =>
        /\ InLoopBody => Saturation(matched_frame.px) = 0
        /\ \A i \in 1..Len(out.frames) :
              (blend_factor = 10 \/ Saturation(video.frames[i + 1].px) = 0)
                  => Saturation(out.frames[i].px) = 0

C5_Witness ==
    /\ saturation_scale = 0
    /\ blend_factor = 10
    /\ Len(out.frames) >= 1
    /\ Saturation(video.frames[2].px) > 0

\* C6: the frame match_histograms returned for the current frame is the one
\* it returns with any other reference frame, and every frame written is the
\* blend of its input frame whatever reference frame is supplied.
C6_ReferenceIndependent ==
    /\ InLoopBody =>
          \A r \in RefFrames :
              match_histograms(frame, r, saturation_scale, clahe_clip_limit)
                  = matched_frame
    /\ \A i \in 1..Len(out.frames) : \A r \in RefFrames :
          out.frames[i] = Processed(video.frames[i + 1], r, saturation_scale,
                                    clahe_clip_limit, blend_factor)

C6_Witness ==
    /\ pc = "write"
    /\ Len(out.frames) = 1
    /\ prev_frame # frame
    /\ matched_frame # frame

\* C7: the lookback is a raw decoded frame: frame 0 before the first
\* iteration, and raw input frame i-1 while input frame i is matched, blended
\* and written.
C7_LookbackIsRaw ==
    /\ pc \in { "setup", "read", "release" } =>
          /\ cap.pos >= 1
          /\ prev_frame = video.frames[cap.pos]
    /\ pc \in { "match", "blend", "write", "advance" } =>
          /\ cap.pos >= 2
          /\ frame = video.frames[cap.pos]
          /\ prev_frame = video.frames[cap.pos - 1]

C7_Witness ==
    /\ pc = "match"
    /\ cap.pos = 3
    /\ prev_frame = video.frames[2]
    /\ prev_frame # blended_frame
    /\ prev_frame # matched_frame

\* ====================================== batch_colorize and colorize_video
\* An entry of files_to_process: <base><suffix>.mp4, present on disk or not.
InputFile(base, suffix, present) ==
    [base |-> base, suffix |-> suffix, present |-> present]
FileChoices == { InputFile("a", "", TRUE), InputFile("a", "", FALSE),
                 InputFile("b", "", TRUE), InputFile("a", "_color", TRUE),
                 InputFile("b", "_final", TRUE) }
StartDirs == { "start", "videos" }

Filter == script = "colorize_filter.py"
CurFile == files[idx]
\* base_name = os.path.splitext(os.path.basename(input_file))[0]
BaseName(f) == << f.base, f.suffix >>
\* working_dir = os.path.join(os.path.dirname(input_path), f"deoldify_{base_name}")
WorkingDir(f) == IF f.base = "a" THEN "deoldify_a" ELSE "deoldify_b"
\* re.search(r'_(color|final)\.mp4$', input_file)
LooksColorized(f) == f.suffix \in { "_color", "_final" }
\* os.path.exists(output_file) and os.path.exists(final_output_file)
OutputsExist(f) ==
    /\ << BaseName(f), "_color" >> \in exists
    /\ << BaseName(f), "_final" >> \in exists

\* The post_process_video variables while batch_colorize is running.
PipelineIdle ==
    /\ video = [opened |-> FALSE, frames |-> << >>, fps |-> 0,
                width |-> 0, height |-> 0]
    /\ saturation_scale = DEFAULT_SATURATION_SCALE
    /\ clahe_clip_limit = DEFAULT_CLAHE_CLIP_LIMIT
    /\ blend_factor = DEFAULT_BLEND_FACTOR
    /\ pc = "idle"
    /\ cap = [pos |-> 0, released |-> FALSE]
    /\ prev_frame = NoFrame
    /\ frame = NoFrame
    /\ matched_frame = NoFrame
    /\ blended_frame = NoFrame
    /\ out = NoWriter
    /\ exc = "none"

\* batch_colorize is called, by either script, on a list of files, in a fresh
\* process (torch.load unpatched, the class tqdm without an attribute tqdm).
InitBatch ==
    /\ PipelineIdle
    /\ script \in { "colorize.py", "colorize_filter.py" }
    /\ files \in SeqsUpTo(FileChoices, MaxFiles)
    /\ idx = 1
    /\ bpc = "loop"
    /\ cpc = "idle"
    /\ cwd \in StartDirs
    /\ torch_load = 0
    /\ tqdm_tqdm = "unset"
    /\ original_load = 0
    /\ original_cwd = "start"
    /\ cexc = "none"
    /\ exists \in { {}, { << << "a", "" >>, "_color" >>, << << "a", "" >>, "_final" >> } }
    /\ log = << >>
    /\ entry = [cwd |-> cwd, torch_load |-> 0, tqdm_tqdm |-> "unset"]

\* One entry per file handled: its index, what happened, and the working
\* directory the loop is in afterwards.
Logged(what) == Append(log, [idx |-> idx, what |-> what, cwd |-> cwd])

\* colorize_filter.py lines 213-217: the name check skips the file.
BatchSkipName ==
    /\ bpc = "loop" /\ idx <= Len(files)
    /\ Filter /\ LooksColorized(CurFile)
    /\ log' = Logged("skip_name")
    /\ idx' = idx + 1
    /\ UNCHANGED << ppVars, script, files, bpc, cpc, cwd, torch_load, tqdm_tqdm,
                    original_load, original_cwd, cexc, exists, entry >>

\* colorize_filter.py lines 219-226: both outputs exist, the file is skipped.
BatchSkipExists ==
    /\ bpc = "loop" /\ idx <= Len(files)
    /\ Filter /\ ~LooksColorized(CurFile) /\ OutputsExist(CurFile)
    /\ log' = Logged("skip_exists")
    /\ idx' = idx + 1
    /\ UNCHANGED << ppVars, script, files, bpc, cpc, cwd, torch_load, tqdm_tqdm,
                    original_load, original_cwd, cexc, exists, entry >>

\* colorize_filter.py lines 228-230, colorize.py lines 94-100: colorize_video
\* is called on the file.
BatchCall ==
    /\ bpc = "loop" /\ idx <= Len(files)
    /\ Filter => (~LooksColorized(CurFile) /\ ~OutputsExist(CurFile))
    /\ bpc' = "call"
    /\ cpc' = "patch_load"
    /\ entry' = [cwd |-> cwd, torch_load |-> torch_load, tqdm_tqdm |-> tqdm_tqdm]
    /\ UNCHANGED << ppVars, script, files, idx, cwd, torch_load, tqdm_tqdm,
                    original_load, original_cwd, cexc, exists, log >>

\* colorize_video returned: the loop goes on with the next file.
BatchReturn ==
    /\ bpc = "call" /\ cpc = "returned"
    /\ log' = Logged("ok")
    /\ idx' = idx + 1
    /\ bpc' = "loop"
    /\ cpc' = "idle"
    /\ UNCHANGED << ppVars, script, files, cwd, torch_load, tqdm_tqdm,
                    original_load, original_cwd, cexc, exists, entry >>

\* Variant: the exception ends the loop.
BatchExcept_Aborts ==
    /\ bpc = "call" /\ cpc = "raised"
    /\ log' = Logged("failed")
    /\ idx' = idx + 1
    /\ bpc' = "done"
    /\ cpc' = "idle"
    /\ cexc' = "none"
    /\ UNCHANGED << ppVars, script, files, cwd, torch_load, tqdm_tqdm,
                    original_load, original_cwd, exists, entry >>

\* colorize_filter.py lines 231-232, colorize.py lines 101-102:
\* except Exception: print, and the loop goes on with the next file.
BatchExcept ==
    /\ bpc = "call" /\ cpc = "raised"
    /\ log' = Logged("failed")
    /\ idx' = idx + 1
    /\ bpc' = "loop"
    /\ cpc' = "idle"
    /\ cexc' = "none"
    /\ UNCHANGED << ppVars, script, files, cwd, torch_load, tqdm_tqdm,
                    original_load, original_cwd, exists, entry >>

\* The for loop is exhausted.
BatchDone ==
    /\ bpc = "loop" /\ idx > Len(files)
    /\ bpc' = "done"
    /\ UNCHANGED << ppVars, script, files, idx, cpc, cwd, torch_load, tqdm_tqdm,
                    original_load, original_cwd, cexc, exists, log, entry >>

\* ------------------------------------------------------ colorize_video steps
\* colorize_filter.py lines 111-115, colorize.py lines 26-30:
\* original_load = torch.load; torch.load = patched_load
CVPatchLoad ==
    /\ cpc = "patch_load"
    /\ original_load' = torch_load
    /\ torch_load' = torch_load + 1
    /\ cpc' = "load_colorizer"
    /\ UNCHANGED << ppVars, script, files, idx, bpc, cwd, tqdm_tqdm,
                    original_cwd, cexc, exists, log, entry >>

\* colorize_filter.py lines 118-119, colorize.py lines 34-35:
\* colorizer = get_video_colorizer(); torch.load = original_load
CVLoadColorizer ==
    /\ cpc = "load_colorizer"
    /\ torch_load' = original_load
    /\ cpc' = "check_input"
    /\ UNCHANGED << ppVars, script, files, idx, bpc, cwd, tqdm_tqdm,
                    original_load, original_cwd, cexc, exists, log, entry >>

\* get_video_colorizer() raises: the assignment after it is not reached.
CVLoadColorizerRaises ==
    /\ cpc = "load_colorizer"
    /\ cexc' = "Exception"
    /\ cpc' = "raised"
    /\ UNCHANGED << ppVars, script, files, idx, bpc, cwd, torch_load, tqdm_tqdm,
                    original_load, original_cwd, exists, log, entry >>

\* colorize_filter.py lines 121-122, colorize.py lines 38-39
CVCheckInput ==
    /\ cpc = "check_input"
    /\ IF CurFile.present
         THEN cpc' = "enter_workdir" /\ cexc' = cexc
         ELSE cpc' = "raised" /\ cexc' = "FileNotFoundError"
    /\ UNCHANGED << ppVars, script, files, idx, bpc, cwd, torch_load, tqdm_tqdm,
                    original_load, original_cwd, exists, log, entry >>

\* colorize_filter.py lines 124-130, colorize.py lines 42-49:
\* os.makedirs(working_dir); original_cwd = os.getcwd(); os.chdir(working_dir)
CVEnterWorkdir ==
    /\ cpc = "enter_workdir"
    /\ original_cwd' = cwd
    /\ cwd' = WorkingDir(CurFile)
    /\ cpc' = IF Filter THEN "patch_tqdm" ELSE "colorize"
    /\ UNCHANGED << ppVars, script, files, idx, bpc, torch_load, tqdm_tqdm,
                    original_load, cexc, exists, log, entry >>

\* os.makedirs(working_dir) raises, before the directory is changed.
CVEnterWorkdirRaises ==
    /\ cpc = "enter_workdir"
    /\ cexc' = "OSError"
    /\ cpc' = "raised"
    /\ UNCHANGED << ppVars, script, files, idx, bpc, cwd, torch_load, tqdm_tqdm,
                    original_load, original_cwd, exists, log, entry >>

\* colorize_filter.py lines 148-160: original_tqdm = tqdm; tqdm.tqdm = CustomTqdm
CVPatchTqdm ==
    /\ cpc = "patch_tqdm"
    /\ tqdm_tqdm' = "CustomTqdm"
    /\ cpc' = "colorize"
    /\ UNCHANGED << ppVars, script, files, idx, bpc, cwd, torch_load,
                    original_load, original_cwd, cexc, exists, log, entry >>

\* colorize_filter.py lines 162-169 (with finally: tqdm.tqdm = original_tqdm),
\* colorize.py lines 54-58: colorize_from_file_name returns.
CVColorize ==
    /\ cpc = "colorize"
    /\ tqdm_tqdm' = IF Filter THEN "tqdm" ELSE tqdm_tqdm
    /\ cpc' = "check_result"
    /\ UNCHANGED << ppVars, script, files, idx, bpc, cwd, torch_load,
                    original_load, original_cwd, cexc, exists, log, entry >>

\* colorize_from_file_name raises; the inner finally still runs.
CVColorizeRaises ==
    /\ cpc = "colorize"
    /\ tqdm_tqdm' = IF Filter THEN "tqdm" ELSE tqdm_tqdm
    /\ cexc' = "Exception"
    /\ cpc' = "finally"
    /\ UNCHANGED << ppVars, script, files, idx, bpc, cwd, torch_load,
                    original_load, original_cwd, exists, log, entry >>

\* colorize_filter.py lines 173-175, colorize.py lines 62-64: the expected
\* result is there, or RuntimeError.
CVCheckResult ==
    /\ cpc = "check_result"
    /\ \E found \in BOOLEAN :
          IF found
            THEN cpc' = "move" /\ cexc' = cexc
            ELSE cpc' = "finally" /\ cexc' = "RuntimeError"
    /\ UNCHANGED << ppVars, script, files, idx, bpc, cwd, torch_load, tqdm_tqdm,
                    original_load, original_cwd, exists, log, entry >>

\* colorize_filter.py lines 177-183, colorize.py lines 67-73:
\* os.makedirs(output_dir); os.rename(expected_result, output_path)
CVMove ==
    /\ cpc = "move"
    /\ exists' = exists \cup { << BaseName(CurFile), "_color" >> }
    /\ cpc' = IF Filter THEN "post_process" ELSE "finally"
    /\ UNCHANGED << ppVars, script, files, idx, bpc, cwd, torch_load, tqdm_tqdm,
                    original_load, original_cwd, cexc, log, entry >>

\* os.makedirs or os.rename raises.
CVMoveRaises ==
    /\ cpc = "move"
    /\ cexc' = "OSError"
    /\ cpc' = "finally"
    /\ UNCHANGED << ppVars, script, files, idx, bpc, cwd, torch_load, tqdm_tqdm,
                    original_load, original_cwd, exists, log, entry >>

\* colorize_filter.py lines 185-188: post_process_video returns.
CVPostProcess ==
    /\ cpc = "post_process"
    /\ exists' = exists \cup { << BaseName(CurFile), "_final" >> }
    /\ cpc' = "finally"
    /\ UNCHANGED << ppVars, script, files, idx, bpc, cwd, torch_load, tqdm_tqdm,
                    original_load, original_cwd, cexc, log, entry >>

\* post_process_video raises, before or after the writer created its file.
CVPostProcessRaises ==
    /\ cpc = "post_process"
    /\ \E partial \in BOOLEAN :
          exists' = IF partial
                      THEN exists \cup { << BaseName(CurFile), "_final" >> }
                      ELSE exists
    /\ cexc' = "RuntimeError"
    /\ cpc' = "finally"
    /\ UNCHANGED << ppVars, script, files, idx, bpc, cwd, torch_load, tqdm_tqdm,
                    original_load, original_cwd, log, entry >>

\* Variant: the working directory is not restored.
CVFinally_NoChdir ==
    /\ cpc = "finally"
    /\ cpc' = IF cexc = "none" THEN "returned" ELSE "raised"
    /\ UNCHANGED << ppVars, script, files, idx, bpc, cwd, torch_load, tqdm_tqdm,
                    original_load, original_cwd, cexc, exists, log, entry >>

\* colorize_filter.py lines 190-194, colorize.py lines 75-81:
\* finally: os.chdir(original_cwd); shutil.rmtree(working_dir); then the
\* function returns, or the pending exception goes on to the caller.
CVFinally ==
    /\ cpc = "finally"
    /\ cwd' = original_cwd
    /\ cpc' = IF cexc = "none" THEN "returned" ELSE "raised"
    /\ UNCHANGED << ppVars, script, files, idx, bpc, torch_load, tqdm_tqdm,
                    original_load, original_cwd, cexc, exists, log, entry >>

NextBatch ==
    \/ BatchSkipName
    \/ BatchSkipExists
    \/ BatchCall
    \/ BatchReturn
    \/ BatchExcept
    \/ BatchDone
    \/ CVPatchLoad
    \/ CVLoadColorizer
    \/ CVLoadColorizerRaises
    \/ CVCheckInput
    \/ CVEnterWorkdir
    \/ CVEnterWorkdirRaises
    \/ CVPatchTqdm
    \/ CVColorize
    \/ CVColorizeRaises
    \/ CVCheckResult
    \/ CVMove
    \/ CVMoveRaises
    \/ CVPostProcess
    \/ CVPostProcessRaises
    \/ CVFinally

SpecBatch == InitBatch /\ [][NextBatch]_vars

\* ================================================ properties of the batch
Attempted(k) == log[k].what \in { "ok", "failed" }
CallEnded == cpc \in { "returned", "raised" }

\* C8: an exception raised while a file is processed never ends the batch:
\* the loop handles every file of the list in list order, each one either
\* skipped by the name check or the outputs-exist check or attempted, and it
\* ends only when the list is exhausted, whichever files failed before.
C8_BatchContinues ==
    /\ Len(log) = idx - 1
    /\ \A k \in 1..Len(log) :
          /\ log[k].idx = k
          /\ log[k].what = "skip_name" <=> (Filter /\ LooksColorized(files[k]))
          /\ log[k].what = "skip_exists" => (Filter /\ OutputsExist(files[k]))
    /\ bpc = "done" => Len(log) = Len(files)

C8_Witness ==
    /\ bpc = "done"
    /\ Len(log) = 3
    /\ log[1].what = "failed"
    /\ log[2].what = "failed"
    /\ Attempted(3)

\* C9: whenever colorize_video has ended, by return or by an exception from
\* any step, the working directory is the one at the call; so every file of
\* the batch is started in the directory batch_colorize was started in.
C9_CwdRestored ==
    /\ CallEnded => cwd = entry.cwd
    /\ \A k \in 1..Len(log) : log[k].cwd = log[1].cwd
    /\ (bpc \in { "loop", "done" } /\ Len(log) >= 1) => cwd = log[1].cwd

C9_Witness ==
    /\ cpc = "raised"
    /\ cexc = "OSError"
    /\ original_cwd = cwd
    /\ Len(log) >= 1
    /\ log[1].what = "failed"

\* C10 (as claimed): whenever colorize_video has ended, by return or by an
\* exception, torch.load and tqdm.tqdm are what they were at the call; hence
\* torch.load is the original loader after any sequence of file attempts.
C10_OverridesUndone ==
    /\ CallEnded => (torch_load = entry.torch_load /\ tqdm_tqdm = entry.tqdm_tqdm)
    /\ bpc = "done" => torch_load = 0
=============================================================================
